---- MODULE Spec2Model ----
(***************************************************************************)
(* The two scripts of asr_vosk_test as one state machine.                  *)
(*                                                                         *)
(*   scripts/asr_vosk.py     the streaming script: a capture callback      *)
(*                           fills the queue q, main() feeds each frame to *)
(*                           a KaldiRecognizer and renders partial results *)
(*   scripts/whisper_small.py the batch script: a capture callback fills   *)
(*                           audio_queue, a daemon thread transcribes each *)
(*                           block, start_recording() waits for Ctrl+C     *)
(*                                                                         *)
(* A behaviour runs one of the two scripts (script, chosen in Init).  The  *)
(* audio device, the user (Ctrl+C, a key press) and the recognition        *)
(* backends are the environment: their inputs are nondeterministic.        *)
(***************************************************************************)
EXTENDS Naturals, Sequences, FiniteSets

VARIABLES
    script,        \* "vosk" | "whisper": which script this process runs
    proc,          \* "running" | "exited": the operating-system process
    pc,            \* position of the main thread
    exc,           \* the exception that ended the main thread, "" if none
    stream,        \* "unopened" | "open" | "closed": main's capture stream
    q,             \* q / audio_queue: a sequence of frame numbers, None = 0
    captured,      \* frames the device has delivered to the callback
    reported,      \* callback statuses printed so far
    dequeued,      \* history: the items the consumers got from the queue
    sigint,        \* a SIGINT is pending for the main thread
    interrupts,    \* Ctrl+C presses so far
    failures,      \* history: backend invocations that raised
    events,        \* history: the RecognitionEvents produced, with text
    data,          \* asr_vosk.py: the frame main() holds (0: none)
    rec_state,     \* asr_vosk.py: "listening" | "segment" | "endpoint"
    segment,       \* asr_vosk.py: number of the recognizer's current segment
    full_text,     \* asr_vosk.py: the committed transcript
    wrapped_text,  \* asr_vosk.py: [bound, lines], unbound until first render
    t_pc,          \* whisper_small.py: position of each transcription thread
    audio_block,   \* whisper_small.py: each thread's local audio_block
    temp_wav,      \* whisper_small.py: the content of temp.wav
    extra_streams  \* whisper_small.py: streams opened by further callers

vars == <<script, proc, pc, exc, stream, q, captured, reported, dequeued,
          sigint, interrupts, failures, events, data, rec_state, segment,
          full_text, wrapped_text, t_pc, audio_block, temp_wav,
          extra_streams>>

common   == <<script, proc, pc, exc, stream, q, captured, reported, dequeued,
              sigint, interrupts, failures, events>>
voskVars == <<data, rec_state, segment, full_text, wrapped_text>>
whisperVars == <<t_pc, audio_block, temp_wav, extra_streams>>

----------------------------------------------------------------------------
\* Bounds of the model.

\* Frames the audio device delivers in one run.
MaxFrames == 3

\* Ctrl+C presses in one run.
MaxInterrupts == 2

\* Calls of start_recording() in one run (the script itself makes one).
MaxStarts == 2

----------------------------------------------------------------------------
\* Program constants.

\* samplerate=16000 of the streaming script's RawInputStream.
samplerate == 16000

\* blocksize=8000 of the streaming script's RawInputStream.
blocksize == 8000

\* sample_rate of the batch script.
sample_rate == 16000

\* block_size of the batch script, in seconds.
block_size == 6

\* block_samples = int(sample_rate * block_size): the blocksize of the
\* batch script's InputStream, so one callback delivers one batch window.
block_samples == sample_rate * block_size

\* queue.Queue() is built with the default maxsize 0: no upper bound.
maxsize == 0

None == 0

\* Texts are sequences of words; a word is a positive number and Space is a
\* whitespace character, as in the " " that line 84 puts before a text.
Space == 0

\* str.strip(): the text without its leading and trailing whitespace.
RECURSIVE StripLeft(_)
StripLeft(text) ==
    IF text /= <<>> /\ Head(text) = Space THEN StripLeft(Tail(text))
    ELSE text

RECURSIVE StripRight(_)
StripRight(text) ==
    IF text /= <<>> /\ text[Len(text)] = Space
    THEN StripRight(SubSeq(text, 1, Len(text) - 1))
    ELSE text

Strip(text) == StripRight(StripLeft(text))
Frames == 1..MaxFrames
Threads == 1..MaxStarts
Scripts == {"vosk", "whisper"}

MainDone == {"finish", "done"}

----------------------------------------------------------------------------
\* queue.Queue

\* QueueFull of a queue built with a positive maxsize, where put blocks
\* the producer until the consumer has taken an item.
MutQueueFullAtCapacity(queue) == Len(queue) >= 1 + 1

\* Queue.put blocks only while the queue is full, and a queue is full only
\* when maxsize > 0.
QueueFull(queue) == maxsize > 0 /\ Len(queue) >= maxsize

\* QueuePut adding at the head: a LIFO queue in place of the FIFO one.
MutQueuePutAtHead(queue, item) == <<item>> \o queue

QueuePut(queue, item) == Append(queue, item)

\* The frames a queue holds (the None sentinel left out).
RECURSIVE FramesOf(_)
FramesOf(queue) ==
    IF queue = <<>> THEN <<>>
    ELSE IF Head(queue) = None THEN FramesOf(Tail(queue))
    ELSE <<Head(queue)>> \o FramesOf(Tail(queue))

----------------------------------------------------------------------------
\* Initial state: the module-level code of either script has run (the model
\* is loaded, the queue is built), main() / start_recording() has not.

Init ==
    /\ script \in Scripts
    /\ proc = "running"
    /\ pc = IF script = "vosk" THEN "v_start" ELSE "w_start"
    /\ exc = ""
    /\ stream = "unopened"
    /\ q = <<>>
    /\ captured = 0
    /\ reported = 0
    /\ dequeued = <<>>
    /\ sigint = FALSE
    /\ interrupts = 0
    /\ failures = 0
    /\ events = <<>>
    /\ data = 0
    /\ rec_state = "listening"
    /\ segment = 1
    /\ full_text = <<>>
    /\ wrapped_text = [bound |-> FALSE, text |-> <<>>, partial |-> 0]
    /\ t_pc = [t \in Threads |-> "unstarted"]
    /\ audio_block = [t \in Threads |-> 0]
    /\ temp_wav = <<>>
    /\ extra_streams = 0

----------------------------------------------------------------------------
\* The capture callback (callback / audio_callback), run by the audio
\* subsystem once per captured block while a stream is open.

\* CallbackPut returning early on a status: the block that came with a
\* status is dropped.
MutCallbackDropsOnStatus(queue, frame, status) ==
    IF status THEN queue ELSE QueuePut(queue, frame)

\* The callback's effect on the queue: the status is printed, and the block
\* is put whether or not a status came with it.
CallbackPut(queue, frame, status) == QueuePut(queue, frame)

CallbackStep(status) ==
    /\ proc = "running"
    /\ stream = "open" \/ extra_streams > 0
    /\ captured < MaxFrames
    /\ ~QueueFull(q)
    /\ captured' = captured + 1
    /\ reported' = IF status THEN reported + 1 ELSE reported
    /\ q' = CallbackPut(q, captured + 1, status)
    /\ UNCHANGED <<script, proc, pc, exc, stream, dequeued, sigint,
                   interrupts, failures, events>>
    /\ UNCHANGED voskVars
    /\ UNCHANGED whisperVars

Callback == \E status \in BOOLEAN : CallbackStep(status)

----------------------------------------------------------------------------
\* The user.

\* Ctrl+C: the signal is pending until the main thread raises
\* KeyboardInterrupt.
Interrupt ==
    /\ proc = "running"
    /\ pc \notin MainDone
    /\ ~sigint
    /\ interrupts < MaxInterrupts
    /\ sigint' = TRUE
    /\ interrupts' = interrupts + 1
    /\ UNCHANGED <<script, proc, pc, exc, stream, q, captured, reported,
                   dequeued, failures, events>>
    /\ UNCHANGED voskVars
    /\ UNCHANGED whisperVars

----------------------------------------------------------------------------
\* StreamExit leaving the stream open: the stream is not closed when the
\* block is left.
MutStreamExitLeavesOpen == "open"

\* Leaving a "with sd.RawInputStream(...)" / "with sd.InputStream(...)"
\* block, normally or by an exception, closes the stream.
StreamExit == "closed"

\* Propagate without the with statement's release: the stream is opened and
\* closed by hand, and an exception skips the close.
MutPropagateSkipsClose(name) ==
    /\ exc' = name
    /\ pc' = "finish"
    /\ stream' = stream

\* An exception no handler of main() / start_recording() catches: it leaves
\* the with block if main is inside it, and ends the main thread.
Propagate(name) ==
    /\ exc' = name
    /\ pc' = "finish"
    /\ stream' = IF stream = "open" THEN StreamExit ELSE stream

----------------------------------------------------------------------------
\* asr_vosk.py: main(stdscr)

VoskInTry == {"v_get", "v_accept", "v_final", "v_partial"}

\* stdscr.clear(), then the with statement opens the stream.
VoskEnter ==
    /\ script = "vosk" /\ proc = "running" /\ pc = "v_start" /\ ~sigint
    /\ stream' = "open"
    /\ pc' = "v_banner"
    /\ UNCHANGED <<script, proc, exc, q, captured, reported, dequeued,
                   sigint, interrupts, failures, events>>
    /\ UNCHANGED voskVars
    /\ UNCHANGED whisperVars

\* The banner is drawn, rec and full_text are set, the try block is entered.
VoskBanner ==
    /\ script = "vosk" /\ proc = "running" /\ pc = "v_banner" /\ ~sigint
    /\ rec_state' = "listening"
    /\ full_text' = <<>>
    /\ pc' = "v_get"
    /\ UNCHANGED <<script, proc, exc, stream, q, captured, reported,
                   dequeued, sigint, interrupts, failures, events>>
    /\ UNCHANGED <<data, segment, wrapped_text>>
    /\ UNCHANGED whisperVars

\* data = q.get(): blocks while the queue is empty.
VoskGet ==
    /\ script = "vosk" /\ proc = "running" /\ pc = "v_get" /\ ~sigint
    /\ q /= <<>>
    /\ data' = Head(q)
    /\ q' = Tail(q)
    /\ dequeued' = Append(dequeued, Head(q))
    /\ pc' = "v_accept"
    /\ UNCHANGED <<script, proc, exc, stream, captured, reported, sigint,
                   interrupts, failures, events>>
    /\ UNCHANGED <<rec_state, segment, full_text, wrapped_text>>
    /\ UNCHANGED whisperVars

\* The branch on rec.AcceptWaveform(data)'s value.
ResultBranch(accepted) == IF accepted THEN "v_final" ELSE "v_partial"

\* rec.AcceptWaveform(data).  The decoder starts a new segment when its last
\* one ended; it then reports an endpoint (TRUE) or none (FALSE), or raises.
\* The call is native code: a pending SIGINT does not stop it.
VoskAccept ==
    /\ script = "vosk" /\ proc = "running" /\ pc = "v_accept"
    /\ \E outcome \in {"endpoint", "none", "raise"} :
         IF outcome = "raise"
         THEN /\ Propagate("BackendError")
              /\ failures' = failures + 1
              /\ UNCHANGED <<rec_state, segment>>
         ELSE /\ segment' = IF rec_state = "endpoint" THEN segment + 1
                            ELSE segment
              /\ rec_state' = IF outcome = "endpoint" THEN "endpoint"
                              ELSE "segment"
              /\ pc' = ResultBranch(outcome = "endpoint")
              /\ UNCHANGED <<exc, stream, failures>>
    /\ UNCHANGED <<script, proc, q, captured, reported, dequeued, sigint,
                   interrupts, events>>
    /\ UNCHANGED <<data, full_text, wrapped_text>>
    /\ UNCHANGED whisperVars

\* AfterFinal with the else of line 85 lost: the partial result is read
\* after a final result too.
MutAfterFinalReadsPartial == "v_partial"

\* Where main() goes after the Final branch: back to q.get() (the partial
\* result is read in the else branch only).
AfterFinal == "v_get"

\* The 'text' the backend may return for a segment: nothing, the segment's
\* word, the word with whitespace around it, or whitespace alone.
FinalTexts(seg) == {<<>>, <<seg>>, <<Space, seg, Space>>, <<Space>>}

\* AppendFinal replacing the transcript by the new text instead of
\* extending it ("=" for "+=").
MutAppendFinalOverwrites(full, final_text) ==
    IF final_text /= <<>> THEN <<Space>> \o Strip(final_text) ELSE full

\* if final_text: full_text += " " + final_text.strip()
AppendFinal(full, final_text) ==
    IF final_text /= <<>> THEN full \o <<Space>> \o Strip(final_text)
    ELSE full

\* result = rec.Result(); final_text = json.loads(result)['text']; a
\* non-empty final_text is appended to full_text.  The word of a segment is
\* the segment's number.
VoskFinal ==
    /\ script = "vosk" /\ proc = "running" /\ pc = "v_final" /\ ~sigint
    /\ \/ /\ Propagate("BackendError")
          /\ failures' = failures + 1
          /\ UNCHANGED <<events, full_text>>
       \/ \E final_text \in FinalTexts(segment) :
            /\ events' = Append(events, [kind |-> "Final", seg |-> segment,
                                         audio |-> <<data>>,
                                         text |-> final_text])
            /\ full_text' = AppendFinal(full_text, final_text)
            /\ pc' = AfterFinal
            /\ UNCHANGED <<exc, stream, failures>>
    /\ UNCHANGED <<script, proc, q, captured, reported, dequeued, sigint,
                   interrupts>>
    /\ UNCHANGED <<data, rec_state, segment, wrapped_text>>
    /\ UNCHANGED whisperVars

\* partial_result = rec.PartialResult(); a non-empty partial text is
\* rendered below the banner: wrapped_text is bound from full_text and the
\* partial text (written as the frame's number).
VoskPartial ==
    /\ script = "vosk" /\ proc = "running" /\ pc = "v_partial" /\ ~sigint
    /\ \E outcome \in {"text", "empty", "raise"} :
         IF outcome = "raise"
         THEN /\ Propagate("BackendError")
              /\ failures' = failures + 1
              /\ UNCHANGED <<events, wrapped_text>>
         ELSE /\ events' = Append(events, [kind |-> "Partial",
                                           seg |-> segment,
                                           audio |-> <<data>>,
                                           text |-> IF outcome = "text"
                                                    THEN <<data>>
                                                    ELSE <<>>])
              /\ wrapped_text' = IF outcome = "text"
                                 THEN [bound |-> TRUE, text |-> full_text,
                                       partial |-> data]
                                 ELSE wrapped_text
              /\ pc' = "v_get"
              /\ UNCHANGED <<exc, stream, failures>>
    /\ UNCHANGED <<script, proc, q, captured, reported, dequeued, sigint,
                   interrupts>>
    /\ UNCHANGED <<data, rec_state, segment, full_text>>
    /\ UNCHANGED whisperVars

\* except KeyboardInterrupt: stdscr.addstr(3 + len(wrapped_text), ...).
\* wrapped_text is a local that only the rendering of a non-empty partial
\* result binds: reading it unbound raises UnboundLocalError.
VoskHandler ==
    /\ script = "vosk" /\ proc = "running" /\ pc = "v_handler" /\ ~sigint
    /\ IF wrapped_text.bound
       THEN /\ pc' = "v_getch"
            /\ UNCHANGED <<exc, stream>>
       ELSE Propagate("UnboundLocalError")
    /\ UNCHANGED <<script, proc, q, captured, reported, dequeued, sigint,
                   interrupts, failures, events>>
    /\ UNCHANGED voskVars
    /\ UNCHANGED whisperVars

\* stdscr.getch() returns when the user presses a key; main() then leaves
\* the with block and returns.
KeyPress ==
    /\ script = "vosk" /\ proc = "running" /\ pc = "v_getch" /\ ~sigint
    /\ stream' = StreamExit
    /\ pc' = "finish"
    /\ UNCHANGED <<script, proc, exc, q, captured, reported, dequeued,
                   sigint, interrupts, failures, events>>
    /\ UNCHANGED voskVars
    /\ UNCHANGED whisperVars

----------------------------------------------------------------------------
\* whisper_small.py: transcribe_audio(), the target of each daemon thread.

ThreadRunning == {"get", "write", "infer"}

\* audio_block = audio_queue.get(); None ends the loop.
ThreadGet(t) ==
    /\ script = "whisper" /\ proc = "running" /\ t_pc[t] = "get"
    /\ q /= <<>>
    /\ q' = Tail(q)
    /\ dequeued' = Append(dequeued, Head(q))
    /\ IF Head(q) = None
       THEN /\ t_pc' = [t_pc EXCEPT ![t] = "exited"]
            /\ UNCHANGED audio_block
       ELSE /\ t_pc' = [t_pc EXCEPT ![t] = "write"]
            /\ audio_block' = [audio_block EXCEPT ![t] = Head(q)]
    /\ UNCHANGED <<script, proc, pc, exc, stream, captured, reported,
                   sigint, interrupts, failures, events>>
    /\ UNCHANGED voskVars
    /\ UNCHANGED <<temp_wav, extra_streams>>

\* WavWrite appending to the file instead of replacing it.
MutWavWriteAppends(file, block) == Append(file, block)

\* scipy's write() opens the file for writing and so replaces its content.
WavWrite(file, block) == <<block>>

\* write('temp.wav', sample_rate, audio_block)
ThreadWrite(t) ==
    /\ script = "whisper" /\ proc = "running" /\ t_pc[t] = "write"
    /\ temp_wav' = WavWrite(temp_wav, audio_block[t])
    /\ t_pc' = [t_pc EXCEPT ![t] = "infer"]
    /\ UNCHANGED common
    /\ UNCHANGED voskVars
    /\ UNCHANGED <<audio_block, extra_streams>>

\* text = whisper('temp.wav'); recognized_text = text['text']; the text is
\* printed.  The pipeline transcribes what temp.wav holds; if it raises, the
\* exception ends transcribe_audio and with it the thread.
ThreadInfer(t) ==
    /\ script = "whisper" /\ proc = "running" /\ t_pc[t] = "infer"
    /\ \E ok \in BOOLEAN :
         IF ok
         THEN /\ events' = Append(events, [kind |-> "Final",
                                           seg |-> audio_block[t],
                                           audio |-> temp_wav,
                                           text |-> temp_wav])
              /\ t_pc' = [t_pc EXCEPT ![t] = "get"]
              /\ UNCHANGED failures
         ELSE /\ failures' = failures + 1
              /\ t_pc' = [t_pc EXCEPT ![t] = "dead"]
              /\ UNCHANGED events
    /\ UNCHANGED <<script, proc, pc, exc, stream, q, captured, reported,
                   dequeued, sigint, interrupts>>
    /\ UNCHANGED voskVars
    /\ UNCHANGED <<audio_block, temp_wav, extra_streams>>

----------------------------------------------------------------------------
\* whisper_small.py: start_recording(), called once by the script.

\* threading.Thread(target=transcribe_audio, daemon=True).start()
WhisperStartThread ==
    /\ script = "whisper" /\ proc = "running" /\ pc = "w_start" /\ ~sigint
    /\ t_pc' = [t_pc EXCEPT ![1] = "get"]
    /\ pc' = "w_spawned"
    /\ UNCHANGED <<script, proc, exc, stream, q, captured, reported,
                   dequeued, sigint, interrupts, failures, events>>
    /\ UNCHANGED voskVars
    /\ UNCHANGED <<audio_block, temp_wav, extra_streams>>

\* with sd.InputStream(...): the stream is opened.
WhisperEnter ==
    /\ script = "whisper" /\ proc = "running" /\ pc = "w_spawned" /\ ~sigint
    /\ stream' = "open"
    /\ pc' = "w_recording"
    /\ UNCHANGED <<script, proc, exc, q, captured, reported, dequeued,
                   sigint, interrupts, failures, events>>
    /\ UNCHANGED voskVars
    /\ UNCHANGED whisperVars

\* print("Recording... Press Ctrl+C to stop."), then the try block with its
\* loop of sd.sleep(1000), which changes nothing.
WhisperPrint ==
    /\ script = "whisper" /\ proc = "running" /\ pc = "w_recording"
    /\ ~sigint
    /\ pc' = "w_sleep"
    /\ UNCHANGED <<script, proc, exc, stream, q, captured, reported,
                   dequeued, sigint, interrupts, failures, events>>
    /\ UNCHANGED voskVars
    /\ UNCHANGED whisperVars

\* except KeyboardInterrupt: audio_queue.put(None)
WhisperHandler ==
    /\ script = "whisper" /\ proc = "running" /\ pc = "w_handler" /\ ~sigint
    /\ ~QueueFull(q)
    /\ q' = QueuePut(q, None)
    /\ pc' = "w_stopped"
    /\ UNCHANGED <<script, proc, exc, stream, captured, reported, dequeued,
                   sigint, interrupts, failures, events>>
    /\ UNCHANGED voskVars
    /\ UNCHANGED whisperVars

\* print("Recording stopped by user"); the with block is left and
\* start_recording() returns.  Nothing joins the transcription thread.
WhisperExit ==
    /\ script = "whisper" /\ proc = "running" /\ pc = "w_stopped" /\ ~sigint
    /\ stream' = StreamExit
    /\ pc' = "finish"
    /\ UNCHANGED <<script, proc, exc, q, captured, reported, dequeued,
                   sigint, interrupts, failures, events>>
    /\ UNCHANGED voskVars
    /\ UNCHANGED whisperVars

----------------------------------------------------------------------------
\* Both scripts.

\* The main thread raises KeyboardInterrupt for a pending SIGINT.  Only the
\* try blocks catch it (asr_vosk.py line 102, whisper_small.py line 90);
\* anywhere else, the except clauses included, it propagates.
RaiseKeyboardInterrupt ==
    /\ proc = "running" /\ sigint /\ pc \notin MainDone
    /\ sigint' = FALSE
    /\ IF pc \in VoskInTry
       THEN /\ pc' = "v_handler"
            /\ UNCHANGED <<exc, stream>>
       ELSE IF pc = "w_sleep"
       THEN /\ pc' = "w_handler"
            /\ UNCHANGED <<exc, stream>>
       ELSE Propagate("KeyboardInterrupt")
    /\ UNCHANGED <<script, proc, q, captured, reported, dequeued,
                   interrupts, failures, events>>
    /\ UNCHANGED voskVars
    /\ UNCHANGED whisperVars

\* The main thread has returned (or died of an exception): the interpreter
\* exits.  Daemon threads do not keep it alive; they end where they are, and
\* every stream of the process is gone.
ProcessExit ==
    /\ proc = "running" /\ pc = "finish"
    /\ proc' = "exited"
    /\ pc' = "done"
    /\ extra_streams' = 0
    /\ UNCHANGED <<script, exc, stream, q, captured, reported, dequeued,
                   sigint, interrupts, failures, events>>
    /\ UNCHANGED voskVars
    /\ UNCHANGED <<t_pc, audio_block, temp_wav>>

\* The steps of the main thread that need nothing from the user.
MainStep ==
    \/ VoskEnter \/ VoskBanner \/ VoskGet \/ VoskAccept \/ VoskFinal
    \/ VoskPartial \/ VoskHandler
    \/ WhisperStartThread \/ WhisperEnter \/ WhisperPrint
    \/ WhisperHandler \/ WhisperExit
    \/ RaiseKeyboardInterrupt \/ ProcessExit

Next ==
    \/ Callback
    \/ Interrupt
    \/ KeyPress
    \/ VoskEnter
    \/ VoskBanner
    \/ VoskGet
    \/ VoskAccept
    \/ VoskFinal
    \/ VoskPartial
    \/ VoskHandler
    \/ WhisperStartThread
    \/ WhisperEnter
    \/ WhisperPrint
    \/ WhisperHandler
    \/ WhisperExit
    \/ RaiseKeyboardInterrupt
    \/ ProcessExit
    \/ \E t \in Threads : ThreadGet(t)
    \/ \E t \in Threads : ThreadWrite(t)
    \/ \E t \in Threads : ThreadInfer(t)

Spec == Init /\ [][Next]_vars

\* The interpreter runs the main thread: a step of it that is possible is
\* eventually taken.  Nothing makes the device deliver a block or the user
\* press a key.
FairSpec == Spec /\ WF_vars(MainStep)

----------------------------------------------------------------------------
\* A further call of start_recording() made while the first one is running,
\* from another (daemon) thread of a program that imports the module:
\* lines 84-85 start one more transcription thread and open one more stream
\* on the same audio_queue.  No state is checked first.
StartRecordingAgain ==
    /\ script = "whisper" /\ proc = "running"
    /\ pc \in {"w_recording", "w_sleep"}
    /\ \E t \in Threads :
         /\ t_pc[t] = "unstarted"
         /\ \A u \in Threads : u < t => t_pc[u] /= "unstarted"
         /\ t_pc' = [t_pc EXCEPT ![t] = "get"]
    /\ extra_streams' = extra_streams + 1
    /\ UNCHANGED common
    /\ UNCHANGED voskVars
    /\ UNCHANGED <<audio_block, temp_wav>>

NextApi == Next \/ StartRecordingAgain

SpecApi == Init /\ [][NextApi]_vars

----------------------------------------------------------------------------
\* Vocabulary of the claims.

\* A stop has been requested: the user has pressed Ctrl+C.
StopRequested == interrupts > 0

\* No capture stream of the process is open.
CaptureClosed == stream /= "open" /\ extra_streams = 0

\* The recognition loop has exited: main()'s while loop in the streaming
\* script, every transcription thread in the batch script.
LoopExited ==
    IF script = "vosk"
    THEN pc \in MainDone
    ELSE proc = "exited" \/ \A t \in Threads : t_pc[t] \notin ThreadRunning

\* PipelineState = Stopped.
Stopped == pc \in MainDone /\ CaptureClosed /\ LoopExited

\* The streaming script waits in stdscr.getch() for a key press.
AwaitingKey == script = "vosk" /\ pc = "v_getch"

\* Frame f has been recognized: an event was produced from it.
Recognized(f) == \E i \in 1..Len(events) : \E k \in 1..Len(events[i].audio) :
                     events[i].audio[k] = f

\* The transcription threads that have been started.
Consumers == {t \in Threads : t_pc[t] /= "unstarted"}

\* The queue capacity the design's default gives the streaming script:
\* about one second of audio, in frames of blocksize samples.
QueueCapacity == samplerate \div blocksize

----------------------------------------------------------------------------
\* C1.  Drop-oldest: after C+1 frames have been pushed into the queue of
\* capacity C and the consumer has taken nothing, the queue holds exactly
\* the C most recently pushed frames, 2..C+1, in push order.
C1_DropOldestKeepsNewest ==
    (captured = QueueCapacity + 1 /\ dequeued = <<>>) =>
        FramesOf(q) = [i \in 1..QueueCapacity |-> i + 1]

\* C2.  The queue is bounded: in every reachable state it holds at most
\* the configured capacity of frames.
C2_QueueBounded == Len(FramesOf(q)) <= QueueCapacity

\* C3.  Streaming script: the events of a segment are zero or more Partial
\* events followed by at most one Final, which is the segment's last event:
\* every event after a Final belongs to a later segment (no Partial of the
\* finalized segment follows it, and the recognizer has started a new
\* segment before the next Final), and every segment before the current one
\* has its Final.
C3_PartialsThenOneFinal ==
    script = "vosk" =>
        /\ \A i \in 1..Len(events) : \A j \in 1..Len(events) :
               i < j =>
                   /\ events[i].seg <= events[j].seg
                   /\ events[i].kind = "Final" =>
                          events[i].seg < events[j].seg
        /\ \A s \in 1..(segment - 1) :
               \E i \in 1..Len(events) :
                   events[i].kind = "Final" /\ events[i].seg = s
        /\ \A i \in 1..Len(events) : events[i].seg \in 1..segment

\* C3 witness: a Partial, the Final of its segment, and the Final of the
\* next segment right after it.
C3_Witness ==
    /\ script = "vosk"
    /\ Len(events) = 3
    /\ events[1] = [kind |-> "Partial", seg |-> 1, audio |-> <<1>>,
                    text |-> <<1>>]
    /\ events[2] = [kind |-> "Final", seg |-> 1, audio |-> <<2>>,
                    text |-> <<1>>]
    /\ events[3] = [kind |-> "Final", seg |-> 2, audio |-> <<3>>,
                    text |-> <<2>>]

\* Blocks of the batch script's stream that make up one batch window of
\* block_size seconds: the stream's blocksize is block_samples.
BlocksPerWindow == (sample_rate * block_size) \div block_samples

\* The batch windows handed to a transcription thread so far, in order.
WindowsFed == FramesOf(dequeued)

\* The batch script's only thread holds a window whose invocation has not
\* returned: it is writing or transcribing it, or died transcribing it.
WindowPending == t_pc[1] \in {"write", "infer", "dead"}

C6_StoppedOnlyWhenDrained ==
    (Stopped /\ StopRequested /\ exc = "") =>
        /\ FramesOf(q) = <<>>
        /\ \A i \in 1..Len(WindowsFed) : Recognized(WindowsFed[i])

\* C7.  A start_recording() on a running pipeline changes nothing: there is
\* never more than one consumer of the queue nor more than one stream.
C7_SecondStartChangesNothing ==
    /\ Cardinality(Consumers) <= 1
    /\ extra_streams = 0

\* The recognition loop that was running before a step still runs after it.
LoopSurvives ==
    IF script = "vosk"
    THEN pc' \in VoskInTry
    ELSE \A t \in Threads :
             t_pc[t] \in ThreadRunning => t_pc'[t] \in ThreadRunning

\* C8.  A backend failure is recoverable: the step in which the backend
\* raises leaves the recognition loop running and the process alive.
C8_BackendFailureRecoverable ==
    [][failures' > failures => (LoopSurvives /\ proc' = "running")]_vars

\* C9 as amended.  A callback that is given a status prints it and goes on:
\* the frame that came with the status is enqueued like any other, and the
\* pipeline (main thread, stream, process) is where it was.
C9_StatusIsReportedFrameEnqueued ==
    [][reported' > reported =>
          /\ reported' = reported + 1
          /\ q' = Append(q, captured')
          /\ captured' = captured + 1
          /\ <<pc, exc, stream, proc>>' = <<pc, exc, stream, proc>>]_vars

\* C9 witness: the first frame came with a status, was enqueued, and has
\* been recognized while the stream is still open.
C9_Witness ==
    /\ reported = 1
    /\ captured = 1
    /\ Recognized(1)
    /\ stream = "open"
    /\ exc = ""

\* C9 as claimed: the frame that comes with a status is not enqueued, and
\* the pipeline moves to Stopped.
C9_StatusStopsPipeline ==
    [][reported' > reported => (q' = q /\ Stopped')]_vars

\* The consumer is busy with a frame (mid-inference), not waiting in get.
ConsumerBusy ==
    IF script = "vosk" THEN pc = "v_accept" ELSE t_pc[1] = "infer"

\* C10.  The callback never blocks: whenever a stream is open and the
\* device has a block to deliver, the callback can run and complete its
\* put, whatever the queue holds and whatever the consumer is doing.
C10_CallbackNeverBlocks ==
    (proc = "running" /\ stream = "open" /\ captured < MaxFrames) =>
        ENABLED Callback

\* C10 witness: the callback has enqueued two frames behind a consumer that
\* is in the middle of an inference.
C10_Witness ==
    /\ ConsumerBusy
    /\ Len(q) = 2
    /\ captured = 3
    /\ stream = "open"

\* C11.  The closed-signal is handed out only when no frames remain: once
\* the batch script's thread has received None and exited, the queue holds
\* no captured frame, and the thread never leaves get on an empty queue.
C11_NoFrameBehindSentinel ==
    script = "whisper" =>
        /\ t_pc[1] = "exited" => FramesOf(q) = <<>>
        /\ (t_pc[1] = "get" /\ q = <<>>) => ~ENABLED ThreadGet(1)

\* The committed transcript the streaming script's screen shows: what the
\* last rendering drew from full_text, nothing before the first rendering.
Displayed == IF wrapped_text.bound THEN wrapped_text.text ELSE <<>>

\* C12.  Every event reaches the ResultSink when it is produced: whenever
\* the streaming script's loop is back at q.get(), or has been left, every
\* Final text committed so far is on the screen.
C12_FinalShownWhenProduced ==
    (script = "vosk" /\ pc \in {"v_get", "v_handler", "v_getch"}) =>
        Displayed = full_text

\* The main thread is inside the with block of its capture stream.
InCaptureScope ==
    pc \in VoskInTry \cup {"v_banner", "v_handler", "v_getch", "w_recording",
                           "w_sleep", "w_handler", "w_stopped"}

\* C13.  The capture device is released on every exit path: the stream is
\* open only while the main thread is inside the with block, whichever way
\* the block was left (normal return, KeyboardInterrupt, an exception of
\* the recognition loop or of the except clause), and never in a state in
\* which the program has ended.
C13_StreamReleasedOnEveryExit ==
    /\ stream = "open" => InCaptureScope
    /\ exc /= "" => stream /= "open"
    /\ proc = "exited" => stream /= "open"

\* C13 witness: the except clause itself raised (wrapped_text was unbound),
\* and the stream it was opened with is closed.
C13_Witness ==
    /\ script = "vosk"
    /\ exc = "UnboundLocalError"
    /\ stream = "closed"
    /\ captured > 0

----------------------------------------------------------------------------
\* The steps of the batch script's transcription threads.
ThreadStep ==
    \E t \in Threads : ThreadGet(t) \/ ThreadWrite(t) \/ ThreadInfer(t)

\* The consumer is scheduled too: beside the main thread, a transcription
\* thread that can take a step eventually takes one.
FairConsumerSpec == FairSpec /\ WF_vars(ThreadStep)

\* Frame f is in the queue / has been taken from it.
InQueue(f) == \E i \in 1..Len(q) : q[i] = f
Taken(f) == \E i \in 1..Len(dequeued) : dequeued[i] = f

\* C14.  The hand-off is lossless and FIFO: in every state the frames taken
\* so far followed by the frames still queued are exactly the frames
\* captured, 1..captured, each once and in capture order; and, the consumer
\* being scheduled, a queued frame is eventually taken as long as the
\* pipeline runs (no stop was requested, the backend has not raised).
C14_HandOffLosslessFifo ==
    /\ [](FramesOf(dequeued) \o FramesOf(q) = [i \in 1..captured |-> i])
    /\ \A f \in Frames :
           InQueue(f) ~> (Taken(f) \/ StopRequested \/ failures > 0)

\* C14 witness: three frames were captured while the consumer was at work
\* and all three have been taken, in order, by a running pipeline.
C14_Witness ==
    /\ captured = 3
    /\ dequeued = <<1, 2, 3>>
    /\ Recognized(2)
    /\ ~StopRequested
    /\ failures = 0

\* C15.  Streaming script: the except clause never fails.  Whatever the
\* state of the loop the KeyboardInterrupt was raised in, the clause shows
\* its message and goes on to wait for a key press; it ends in no exception
\* of its own.
C15_InterruptHandlerNeverFails ==
    [][(script = "vosk" /\ pc = "v_handler" /\ ~sigint /\ pc' /= pc) =>
          (pc' = "v_getch" /\ exc' = "")]_vars

\* The transcript that a sequence of events commits when every non-empty
\* Final text is added behind a space, stripped of surrounding whitespace.
RECURSIVE Transcript(_)
Transcript(evs) ==
    IF evs = <<>> THEN <<>>
    ELSE LET e == evs[Len(evs)]
             before == Transcript(SubSeq(evs, 1, Len(evs) - 1))
         IN  IF e.kind = "Final" /\ e.text /= <<>>
             THEN before \o <<Space>> \o Strip(e.text)
             ELSE before

\* The transcript the same events commit when each non-empty Final text is
\* added behind a space exactly as received.
RECURSIVE TranscriptVerbatim(_)
TranscriptVerbatim(evs) ==
    IF evs = <<>> THEN <<>>
    ELSE LET e == evs[Len(evs)]
             before == TranscriptVerbatim(SubSeq(evs, 1, Len(evs) - 1))
         IN  IF e.kind = "Final" /\ e.text /= <<>>
             THEN before \o <<Space>> \o e.text
             ELSE before

\* The event a step of the streaming loop produced.
Produced == events'[Len(events')]

\* C16 as amended.  full_text is append-only: a step that handles a
\* Partial, or a Final with empty text, leaves it unchanged; a step that
\* handles a Final with non-empty text extends it by a space plus that text
\* stripped of its surrounding whitespace (a lone space for a text of
\* whitespace only); no other step changes it; and in every state it is the
\* concatenation, in order, of those additions.
C16_FullTextAppendOnly ==
    /\ [](script = "vosk" => full_text = Transcript(events))
    /\ [][script = "vosk" =>
            IF events' /= events
            THEN /\ events' = Append(events, Produced)
                 /\ full_text' =
                      IF Produced.kind = "Final" /\ Produced.text /= <<>>
                      THEN full_text \o <<Space>> \o Strip(Produced.text)
                      ELSE full_text
            ELSE full_text' = full_text]_vars

\* C16 witness: a Final whose text came with whitespace around it, a
\* Partial, and a second Final have been handled.
C16_Witness ==
    /\ script = "vosk"
    /\ Len(events) = 3
    /\ events[1].kind = "Final" /\ events[1].text = <<Space, 1, Space>>
    /\ events[2].kind = "Partial" /\ events[2].text /= <<>>
    /\ events[3].kind = "Final" /\ events[3].text = <<2>>
    /\ full_text = <<Space, 1, Space, 2>>
    /\ pc = "v_get"

\* C16 as claimed: a Final with non-empty text extends full_text by exactly
\* a space plus that text, and full_text is the concatenation of the
\* non-empty Final texts received.
C16_FullTextAppendsTextVerbatim ==
    /\ [](script = "vosk" => full_text = TranscriptVerbatim(events))
    /\ [][script = "vosk" =>
            IF events' /= events
            THEN /\ events' = Append(events, Produced)
                 /\ full_text' =
                      IF Produced.kind = "Final" /\ Produced.text /= <<>>
                      THEN full_text \o <<Space>> \o Produced.text
                      ELSE full_text
            ELSE full_text' = full_text]_vars

====
